---- MODULE Spec2Model ----
(***************************************************************************)
(* Model of zmq_plugin: the message schema (schema.py), the Hub (hub.py)   *)
(* and the Plugin (plugin.py), with the ZeroMQ endpoints they drive.       *)
(*                                                                         *)
(* Transport assumptions (pyzmq, outside the repository):                  *)
(*   - a REP socket alternates recv/send: a send with no request pending   *)
(*     raises, and a request left unanswered blocks further receives;      *)
(*   - a ROUTER socket strips the first frame of what it sends (the peer   *)
(*     identity) and prefixes what it receives with the sender identity;   *)
(*   - Socket.send(x) / send_multipart(x) transmit the frames x.           *)
(***************************************************************************)
EXTENDS Integers, Sequences, FiniteSets, TLC

(***************************************************************************)
(* Bounds of the model.                                                    *)
(***************************************************************************)
\* Largest value the execute-reply counters may hand out.
MaxCount == 4
\* Number of session ids get_header can draw (fresh per request).
MaxSessions == 2
\* Capacity of each in-flight Command queue.
MaxQueue == 1
\* Number of frame lists the hub is handed in a row in RelaySpec.
MaxRelay == 3
\* Largest counter value a plugin may hand out.
MaxPluginCount == 2
\* Largest counter value the hub may hand out when plugins are connected.
MaxNetCount == 7

(***************************************************************************)
(* Names, ports, optional values.                                          *)
(***************************************************************************)
Plugins == {"p1", "p2"}
HubName == "hub"
Env == "env"
Sources == Plugins
\* Ports bind_to_random_port can return for the Command and the Publish socket.
CommandPorts == {5001, 5002}
PublishPorts == {6001, 6002}
Sessions == 1..MaxSessions
Endpoints == {"publish", "query", "command"}

Absent == "absent"
None == {}
Some(x) == {x}
The(s) == CHOOSE x \in s : TRUE

Range(s) == {s[i] : i \in 1..Len(s)}

(***************************************************************************)
(* Messages (schema.py MESSAGE_SCHEMA).  String-valued fields hold Absent  *)
(* when the key is missing; object- and number-valued fields are None or   *)
(* Some(value).  session is "s<n>"; session_id is a key the schema does    *)
(* not define but Plugin._process__execute_reply reads.                    *)
(***************************************************************************)
SessionName(n) == IF n = 1 THEN "s1" ELSE IF n = 2 THEN "s2" ELSE "s3"

MsgTypes == {"connect_request", "connect_reply", "execute_request", "execute_reply"}
Versions == {"0.2"}
Statuses == {"ok", "error", "abort"}
HeaderRequired == {"msg_id", "session", "date", "source", "target", "msg_type", "version"}

NoContentFields ==
    [command |-> Absent, status |-> Absent, execution_count |-> None,
     error |-> None, data |-> None, command_info |-> None, publish |-> None]

\* The header of a new message (get_header of schema.py, not in src/).
get_header(source, target, msg_type, session) ==
    [msg_id |-> "id", session |-> session, date |-> "date", source |-> source,
     target |-> target, msg_type |-> msg_type, version |-> "0.2",
     session_id |-> Absent]

EmptyMsg == [header |-> None, parent_header |-> None, content |-> None]

\* Variant of HeaderValid that accepts any version and msg_type.
HeaderValidOpenSets(h) == \A f \in HeaderRequired : h[f] # Absent

\* header schema: an object with every required key, msg_type and version
\* drawn from their enums.
HeaderValid(h) ==
    /\ \A f \in HeaderRequired : h[f] # Absent
    /\ h.msg_type \in MsgTypes
    /\ h.version \in Versions

\* base_message: header required; parent_header, when present, a header.
BaseValid(m) ==
    /\ m.header # None
    /\ HeaderValid(The(m.header))
    /\ (m.parent_header # None => HeaderValid(The(m.parent_header)))

\* Variant of TypeValid that requires no key of the content.
TypeValidNoRequired(m) ==
    The(m.header).msg_type \in {"execute_reply", "connect_reply"}
        => m.content # None

\* The msg_type-specific schema, applied after the base schema.
TypeValid(m) ==
    LET t == The(m.header).msg_type
        hasC == m.content # None
        c == IF hasC THEN The(m.content) ELSE NoContentFields
    IN  CASE t = "execute_request" -> (hasC => c.command # Absent)
          [] t = "execute_reply" ->
                /\ hasC
                /\ c.status \in Statuses
                /\ c.execution_count # None
          [] t = "connect_request" -> TRUE
          [] t = "connect_reply" ->
                /\ hasC
                /\ c.command_info # None
                /\ c.publish # None
          [] OTHER -> FALSE

\* validate(data): TRUE when it returns data, FALSE when it raises
\* jsonschema.ValidationError.
Validates(m) == BaseValid(m) /\ TypeValid(m)

\* validate(data) (schema.py 151-157) step by step: the validators run, in
\* order, the step that raised ("none" when none did) and the value
\* returned (None when it raised).
validate(data) ==
    IF ~BaseValid(data)
    THEN [ran |-> <<"base_message">>, failed |-> "base_message", value |-> None]
    ELSE IF ~TypeValid(data)
    THEN [ran |-> <<"base_message", The(data.header).msg_type>>,
          failed |-> The(data.header).msg_type, value |-> None]
    ELSE [ran |-> <<"base_message", The(data.header).msg_type>>,
          failed |-> "none", value |-> Some(data)]

(***************************************************************************)
(* Frames.  A frame is bytes; json.loads succeeds on the frames json.dumps *)
(* produced and raises ValueError on the others.                           *)
(***************************************************************************)
Bytes(s) == [text |-> s, doc |-> None]
Dumps(m) == [text |-> "json", doc |-> Some(m)]
Decodable(f) == f.doc # None
Loads(f) == The(f.doc)

(***************************************************************************)
(* Message constructors.  schema.py's get_connect_request,                 *)
(* get_connect_reply, get_execute_request, get_execute_reply and           *)
(* decode_content_data are imported by hub.py and plugin.py but are not in *)
(* src/; they are modelled from the specification's message shapes.  A     *)
(* reply swaps the request's source and target and echoes its session.     *)
(***************************************************************************)
Msg(header, parent, content) ==
    [header |-> Some(header), parent_header |-> parent, content |-> content]

get_connect_request(source, target, session) ==
    Msg(get_header(source, target, "connect_request", session), None, None)

get_execute_request(source, target, command, session) ==
    Msg(get_header(source, target, "execute_request", session), None,
        Some([NoContentFields EXCEPT !.command = command]))

\* A reply cannot be built (KeyError) for a request whose header lacks the
\* keys the reply header is copied from.
ReplyRaises(request) ==
    \/ request.header = None
    \/ LET h == The(request.header)
       IN  h.source = Absent \/ h.target = Absent \/ h.session = Absent

ReplyHeader(request, msg_type) ==
    LET h == The(request.header)
    IN  get_header(h.target, h.source, msg_type, h.session)

get_connect_reply(request, socket_info) ==
    Msg(ReplyHeader(request, "connect_reply"), request.header,
        Some([NoContentFields EXCEPT !.command_info = Some(socket_info.command),
                                     !.publish = Some(socket_info.publish)]))

\* error is None or Some(exception name); data is None or Some(value).
get_execute_reply(request, execution_count, error, data) ==
    Msg(ReplyHeader(request, "execute_reply"), request.header,
        Some([NoContentFields EXCEPT
                !.status = IF error = None THEN "ok" ELSE "error",
                !.execution_count = Some(execution_count),
                !.error = IF error = None THEN None
                          ELSE Some([ename |-> The(error)]),
                !.data = data]))

\* The keyword parameters get_execute_reply is called with in hub.py and
\* plugin.py; a call that passes any other keyword raises TypeError.
ExecuteReplyKeywords == {"status", "error", "data"}

\* The keys of a message dict.
MessageKeys(m) ==
    (IF m.header # None THEN {"header"} ELSE {})
    \cup (IF m.parent_header # None THEN {"parent_header"} ELSE {})
    \cup (IF m.content # None THEN {"content"} ELSE {})

\* decode_content_data(reply): the data of the reply's content.
decode_content_data(reply) ==
    IF reply.content = None THEN None ELSE The(reply.content).data

(***************************************************************************)
(* State.                                                                  *)
(***************************************************************************)
VARIABLES
    hub_state,              \* "Unbound" until Hub.reset() has run, then "Bound"
    registry,               \* Hub.registry: the keys of the OrderedDict, in order
    hub_execute_reply_id,   \* next value of Hub.execute_reply_id (0: not created)
    query_socket,           \* hub REP socket: "None", "idle" or "pending"
    command_port,           \* Hub.command_port (0: not bound)
    publish_port,           \* Hub.publish_port (0: not bound)
    hub_sockets,            \* per hub endpoint: the handles now open (live)
                            \* and the most that were open at once (peak)
    plugin_state,           \* per plugin: "Unbound" until reset() has returned
    plugin_pc,              \* per plugin: "idle", or where it blocks in query()
    plugin_execute_reply_id,\* per plugin: next value of execute_reply_id
    callbacks,              \* per plugin: the keys of Plugin.callbacks
    plugin_registry,        \* per plugin: Plugin.plugin_registry (None: not set)
    hub_socket_info,        \* per plugin: Plugin.hub_socket_info (None: not set)
    plugin_command_socket,  \* per plugin: port its Command socket connects to
                            \* (0: no socket)
    query_req,              \* per plugin: request frame on its way to the hub
    query_rep,              \* per plugin: reply frame on its way back
    hub_cmd_in,             \* frame lists received by the hub's ROUTER socket
    plugin_cmd_in,          \* per plugin: frame lists received by its ROUTER
    next_session,           \* number of the next fresh session id
    cb_requested,           \* per plugin: sessions of the execute() calls that
                            \* were given a callback
    plugin_query_socket,    \* per plugin: its REQ socket: state "None", "ready"
                            \* or "awaiting", and gen, which flips each time
                            \* a socket is created
    plugin_subscribe_socket,\* per plugin: port its Subscribe socket connects
                            \* to (0: no socket)
    plugin_trace,           \* per plugin: the steps of its latest reset()
    plugin_result,          \* per plugin: how its latest reset() or query()
                            \* ended: "none", "returned" or "raised"
    cb_ran,                 \* per plugin: sessions whose callback has run
    validated,              \* the latest call of validate: its argument and
                            \* result
    last,                   \* the latest call of a receive entry point: its
                            \* input, what it sent, its events, in order
    tick,                   \* flips at every call of a receive entry point
    command_in,             \* RelaySpec: the frame lists Hub.on_command_recv
                            \* was given, in order
    command_out             \* RelaySpec: the frame lists the hub wrote to its
                            \* Command socket, in order

hubVars == <<hub_state, registry, hub_execute_reply_id, query_socket,
             command_port, publish_port, hub_sockets>>

pluginVars == <<plugin_state, plugin_pc, plugin_execute_reply_id, callbacks,
                plugin_registry, hub_socket_info, plugin_command_socket,
                next_session, cb_requested, plugin_query_socket,
                plugin_subscribe_socket, plugin_trace, plugin_result, cb_ran>>

\* What the plugin steps that neither open a socket nor end a call leave
\* alone.
pluginIO == <<plugin_query_socket, plugin_subscribe_socket, plugin_trace,
              plugin_result, cb_ran>>

netVars == <<query_req, query_rep, hub_cmd_in, plugin_cmd_in>>

relayVars == <<command_in, command_out>>

vars == <<hubVars, pluginVars, netVars, validated, last, tick, relayVars>>

(***************************************************************************)
(* Hub (hub.py).                                                           *)
(***************************************************************************)
\* Variant of RegistryAdd that deletes the key before setting it, so that a
\* name already present moves to the end.
RegistryAddMovesLast(reg, source) ==
    Append(SelectSeq(reg, LAMBDA n : n # source), source)

\* Variant of RegistryAdd that puts a new name ahead of those already
\* there.
RegistryAddFirst(reg, source) ==
    IF source \in Range(reg) THEN reg ELSE <<source>> \o reg

\* self.registry[source] = source on an OrderedDict: a key already present
\* keeps its position.
RegistryAdd(reg, source) ==
    IF source \in Range(reg) THEN reg ELSE Append(reg, source)

HubHandlers == {"register"}

\* Variant of Outcome in which no exception is ever raised.
OutcomeNeverRaises(reply, raised, reg, count) ==
    [reply |-> reply, raised |-> FALSE, registry |-> reg, count |-> count]

\* What a handler or a processing step hands back: the reply (None when an
\* exception escapes instead), the registry and the counter afterwards.
Outcome(reply, raised, reg, count) ==
    [reply |-> reply, raised |-> raised, registry |-> reg, count |-> count]

\* The except branch of Hub._process__execute_request (hub.py 173-175):
\* one more counter value, an error reply, or the KeyError of building it.
HubExceptReply(request, ename, reg, count) ==
    IF ReplyRaises(request)
    THEN Outcome(None, TRUE, reg, count + 1)
    ELSE Outcome(Some(get_execute_reply(request, count, Some(ename), None)),
                 FALSE, reg, count + 1)

\* Hub.on_execute__register followed by the wrapping of its result
\* (hub.py 168-171, 212-219).
HubRegister(request, reg, count) ==
    LET h == The(request.header)
        reg2 == RegistryAdd(reg, h.source)
        inner == get_execute_reply(request, count, None,
                                   Some([result |-> reg2]))
    IN  IF h.source = Absent
        THEN HubExceptReply(request, "KeyError", reg, count)
        ELSE IF ReplyRaises(request)
        THEN HubExceptReply(request, "KeyError", reg2, count + 1)
        ELSE IF MessageKeys(inner) \subseteq ExecuteReplyKeywords
        THEN LET reply == get_execute_reply(request, count + 1, None, None)
             IN  IF Validates(reply)
                 THEN Outcome(Some(reply), FALSE, reg2, count + 2)
                 ELSE HubExceptReply(request, "ValidationError", reg2, count + 2)
        ELSE HubExceptReply(request, "TypeError", reg2, count + 2)

\* Hub._process__execute_request (hub.py 158-175).
HubProcessExecuteRequest(request, reg, count) ==
    LET hasCommand == /\ request.content # None
                      /\ The(request.content).command # Absent
        command == The(request.content).command
    IN  IF ~hasCommand
        THEN HubExceptReply(request, "KeyError", reg, count)
        ELSE IF command \in HubHandlers
        THEN HubRegister(request, reg, count)
        ELSE IF ReplyRaises(request)
        THEN HubExceptReply(request, "KeyError", reg, count + 1)
        ELSE LET reply == get_execute_reply(request, count, Some("NameError"), None)
             IN  IF Validates(reply)
                 THEN Outcome(Some(reply), FALSE, reg, count + 1)
                 ELSE HubExceptReply(request, "ValidationError", reg, count + 1)

\* Variant of SocketInfo that advertises the first ports instead of those of
\* the sockets now bound.
SocketInfoFirstPorts(cport, pport) ==
    [command |-> [port |-> 5001, name |-> HubName],
     publish |-> [port |-> 6001]]

\* The socket_info of Hub.on_query_recv (hub.py 316-320); a uri is the fixed
\* transport and host followed by the port, so the port stands for it.
SocketInfo(cport, pport) ==
    [command |-> [port |-> cport, name |-> HubName],
     publish |-> [port |-> pport]]

\* The second try block of Hub.on_query_recv up to the reply (hub.py 309-327).
HubDispatch(request, reg, count, cport, pport) ==
    IF request.header = None \/ The(request.header).msg_type = Absent
    THEN Outcome(None, TRUE, reg, count)
    ELSE LET h == The(request.header)
         IN  IF h.msg_type = "connect_request"
             THEN IF h.source = Absent
                  THEN Outcome(None, TRUE, reg, count)
                  ELSE LET reg2 == RegistryAdd(reg, h.source)
                       IN  IF ReplyRaises(request)
                           THEN Outcome(None, TRUE, reg2, count)
                           ELSE LET reply == get_connect_reply(
                                                request, SocketInfo(cport, pport))
                                IN  IF Validates(reply)
                                    THEN Outcome(Some(reply), FALSE, reg2, count)
                                    ELSE Outcome(None, TRUE, reg2, count)
             ELSE IF h.msg_type = "execute_request"
             THEN HubProcessExecuteRequest(request, reg, count)
             ELSE Outcome(None, TRUE, reg, count)

\* Hub.on_query_recv (hub.py 296-331) on a frame just received by the REP
\* socket.  The result gives the registry, counter and socket afterwards,
\* the reply sent (None when none was), the events in order and whether an
\* exception left the method.
QueryResult(reg, count, socket, sent, trace, escaped) ==
    [registry |-> reg, count |-> count, socket |-> socket, sent |-> sent,
     trace |-> trace, escaped |-> escaped]

HubOnQueryRecv(frame, reg, count, cport, pport) ==
    IF ~Decodable(frame)
    THEN \* json.loads raises ValueError, which line 304 does not catch.
         QueryResult(reg, count, "pending", None, <<"query_in">>, TRUE)
    ELSE LET request == Loads(frame)
             valid == Validates(request)
             socket1 == IF valid THEN "pending" ELSE "idle"
             trace1 == IF valid THEN <<"query_in">>
                       ELSE <<"query_in", "reset_query_socket">>
             d == HubDispatch(request, reg, count, cport, pport)
         IN  IF d.raised
             THEN QueryResult(d.registry, d.count, "idle", None,
                              Append(trace1, "reset_query_socket"), FALSE)
             ELSE IF socket1 = "pending"
             THEN QueryResult(d.registry, d.count, "idle", d.reply,
                              trace1 \o <<"query_out", "send">>, FALSE)
             ELSE \* send on a REP socket with no request pending raises.
                  QueryResult(d.registry, d.count, "idle", None,
                              trace1 \o <<"query_out", "send_failed",
                                          "reset_query_socket">>, FALSE)

\* Variant of Swap that re-emits the envelope as received.
SwapKeepsOrder(frames) == frames

\* The frame list Hub.on_command_recv hands to command_send (hub.py 273-275).
Swap(frames) ==
    <<frames[2], frames[1], frames[3], frames[4], frames[5]>>

\* Variant of HubOnCommandRecv that re-emits frame lists of any other length.
HubOnCommandRecvRelaysAll(frames) ==
    [sent |-> <<IF Len(frames) = 5 THEN Swap(frames) ELSE frames>>,
     trace |-> <<"command_in", "command_out", "send">>]

\* Hub.on_command_recv with Hub.command_send (hub.py 126-130, 268-276): the
\* frame lists written to the Command socket and the events in order.
HubOnCommandRecv(frames) ==
    IF Len(frames) = 5
    THEN [sent |-> <<Swap(frames)>>,
          trace |-> <<"command_in", "command_out", "send">>]
    ELSE [sent |-> <<>>, trace |-> <<"command_in">>]

(***************************************************************************)
(* Plugin (plugin.py).                                                     *)
(***************************************************************************)
\* on_execute__<command> methods are supplied by subclasses of Plugin.  The
\* model gives a plugin two: ping builds its reply as Hub.on_execute__register
\* does, drawing one counter value; boom raises.
PluginHandlers == {"ping", "boom"}

PluginHandler(command, request, count) ==
    IF command = "ping" /\ ~ReplyRaises(request)
    THEN [reply |-> Some(get_execute_reply(request, count, None,
                                           Some([result |-> <<"pong">>]))),
          raised |-> FALSE, count |-> count + 1]
    ELSE IF command = "ping"
    THEN [reply |-> None, raised |-> TRUE, count |-> count + 1]
    ELSE [reply |-> None, raised |-> TRUE, count |-> count]

\* What Plugin.on_command_recv leaves: the frame lists sent on the Command
\* socket, the counter, the sessions whose callback ran, the events in
\* order, and whether an exception left the method.
CommandResult(sent, count, invoked, trace, escaped) ==
    [sent |-> sent, count |-> count, invoked |-> invoked, trace |-> trace,
     escaped |-> escaped]

\* Variant of ReplyEnvelope that sends the reply without the hub's address.
ReplyEnvelopeUnaddressed(reply) == <<Dumps(reply)>>

\* send_multipart(['hub', '', reply_str]) (plugin.py 304).
ReplyEnvelope(reply) == <<Bytes(HubName), Bytes(""), Dumps(reply)>>

\* Variant of PluginExceptReply that lets the handler's exception leave the
\* method instead of answering it.
PluginExceptReplyEscapes(request, ename, count, trace) ==
    CommandResult(<<>>, count, <<>>, trace, TRUE)

\* The except branch of Plugin._process__execute_request and the send that
\* follows it (plugin.py 299-304).
PluginExceptReply(request, ename, count, trace) ==
    IF ReplyRaises(request)
    THEN CommandResult(<<>>, count + 1, <<>>, trace, TRUE)
    ELSE CommandResult(
            <<ReplyEnvelope(get_execute_reply(request, count, Some(ename), None))>>,
            count + 1, <<>>, Append(trace, "send"), FALSE)

\* validate(reply), json.dumps and the send (plugin.py 297-304).
PluginValidateAndSend(request, reply, count, trace) ==
    IF Validates(reply)
    THEN CommandResult(<<ReplyEnvelope(reply)>>, count, <<>>,
                       Append(trace, "send"), FALSE)
    ELSE PluginExceptReply(request, "ValidationError", count, trace)

\* Plugin._process__execute_request (plugin.py 286-304).
PluginProcessExecuteRequest(request, count, trace) ==
    LET hasCommand == /\ request.content # None
                      /\ The(request.content).command # Absent
        command == The(request.content).command
    IN  IF ~hasCommand
        THEN PluginExceptReply(request, "KeyError", count, trace)
        ELSE IF command \notin PluginHandlers
        THEN IF ReplyRaises(request)
             THEN PluginExceptReply(request, "KeyError", count + 1, trace)
             ELSE PluginValidateAndSend(
                    request,
                    get_execute_reply(request, count, Some("NameError"), None),
                    count + 1, trace)
        ELSE LET h == PluginHandler(command, request, count)
                 trace2 == Append(trace, "handler")
             IN  IF h.raised
                 THEN PluginExceptReply(request, "HandlerError", h.count, trace2)
                 ELSE PluginValidateAndSend(request, The(h.reply), h.count, trace2)

\* Plugin._process__execute_reply (plugin.py 250-263): the callback is looked
\* up under the header key session_id.
PluginProcessExecuteReply(reply, count, cbs, trace) ==
    LET session_id == The(reply.header).session_id
    IN  IF session_id # Absent /\ session_id \in cbs
        THEN CommandResult(<<>>, count, <<session_id>>,
                           Append(trace, "callback"), FALSE)
        ELSE CommandResult(<<>>, count, <<>>, trace, FALSE)

\* Plugin.on_command_recv (plugin.py 219-233).
PluginOnCommandRecv(frames, count, cbs) ==
    IF Len(frames) = 0 \/ ~Decodable(frames[Len(frames)])
    THEN \* IndexError or ValueError, which line 223 does not catch.
         CommandResult(<<>>, count, <<>>, <<>>, TRUE)
    ELSE LET message == Loads(frames[Len(frames)])
             trace == IF Validates(message) THEN <<>>
                      ELSE <<"unexpected message">>
         IN  IF message.header = None \/ The(message.header).msg_type = Absent
             THEN CommandResult(<<>>, count, <<>>, trace, TRUE)
             ELSE LET message_type == The(message.header).msg_type
                  IN  IF message_type = "execute_request"
                      THEN PluginProcessExecuteRequest(message, count, trace)
                      ELSE IF message_type = "execute_reply"
                      THEN PluginProcessExecuteReply(message, count, cbs, trace)
                      ELSE CommandResult(<<>>, count, <<>>,
                                         Append(trace, "unrecognized type"), FALSE)

\* Plugin.query after the reply frame arrived (plugin.py 172-178): TRUE when
\* the reply decodes and validates, FALSE when query() raises.
QueryReplyOk(frame) == Decodable(frame) /\ Validates(Loads(frame))

\* The session of a request sent over the Query socket; no code reads it.
QuerySession == "q"

(***************************************************************************)
(* Inputs a peer can put on the hub's endpoints.                           *)
(***************************************************************************)
WithHeader(m, field, value) ==
    [m EXCEPT !.header = Some([The(m.header) EXCEPT ![field] = value])]

WithContent(m, field, value) ==
    [m EXCEPT !.content = Some([The(m.content) EXCEPT ![field] = value])]

HubCommands == {"register", "nope"}

\* Well-formed requests of the two kinds the Query endpoint serves; an
\* execute_request need not have a content.
GoodQueryDocs ==
    {get_connect_request(p, HubName, "s1") : p \in Sources}
    \cup {get_execute_request(p, HubName, c, "s1") :
            p \in Sources, c \in HubCommands}
    \cup {[get_execute_request("p1", HubName, "nope", "s1") EXCEPT !.content = None]}

\* Valid messages of the reply types, which the Query endpoint does not serve.
ReplyDocs ==
    {get_connect_reply(get_connect_request(HubName, "p1", "s1"),
                       SocketInfo(5001, 6001)),
     get_execute_reply(get_execute_request(HubName, "p1", "nope", "s1"),
                       1, None, None)}

\* Documents that fail the base or the msg_type-specific schema.
BadQueryDocs ==
    {EmptyMsg,
     WithHeader(get_connect_request("p1", HubName, "s1"), "version", "0.1"),
     WithHeader(get_connect_request("p1", HubName, "s1"), "source", Absent),
     WithHeader(get_connect_request("p2", HubName, "s1"), "target", Absent),
     WithHeader(get_connect_request("p1", HubName, "s1"), "msg_type", "bogus"),
     WithHeader(get_execute_request("p2", HubName, "register", "s1"), "version", "0.1"),
     WithHeader(get_execute_request("p1", HubName, "register", "s1"), "source", Absent),
     WithContent(get_execute_request("p1", HubName, "nope", "s1"), "command", Absent)}

QueryFrames ==
    {Bytes("not json")}
    \cup {Dumps(m) : m \in GoodQueryDocs \cup ReplyDocs \cup BadQueryDocs}

\* Well-formed messages of the four types.
WellFormed ==
    UNION {{get_connect_request(p, HubName, "s1"),
            get_connect_reply(get_connect_request(p, HubName, "s1"),
                              SocketInfo(5001, 6001)),
            get_execute_request(p, HubName, "register", "s1"),
            get_execute_request(HubName, p, "ping", "s2"),
            get_execute_reply(get_execute_request(p, HubName, "register", "s1"),
                              1, None, Some([result |-> <<p>>])),
            get_execute_reply(get_execute_request(p, HubName, "nope", "s1"),
                              2, Some("NameError"), None)} : p \in Sources}

\* The required keys of the content of a message of each type, with the
\* value that stands for the key being missing.
ContentRequired(msg_type) ==
    CASE msg_type = "execute_request" -> {<<"command", Absent>>}
      [] msg_type = "execute_reply" ->
            {<<"status", Absent>>, <<"execution_count", None>>}
      [] msg_type = "connect_reply" ->
            {<<"command_info", None>>, <<"publish", None>>}
      [] OTHER -> {}

\* m with one required key removed.
Removals(m) ==
    {WithHeader(m, f, Absent) : f \in HeaderRequired}
    \cup {WithContent(m, r[1], r[2]) :
            r \in ContentRequired(The(m.header).msg_type)}

\* m with a version or msg_type outside the closed sets, alone or together
\* with a missing content.
Foreign(m) ==
    LET other == {WithHeader(m, "version", v) : v \in {"0.1", "1.0", ""}}
                 \cup {WithHeader(m, "msg_type", t) :
                        t \in {"bogus", "publish", ""}}
    IN  other \cup {[x EXCEPT !.content = None] : x \in other}

\* m, when its content carries an error object, with that object's ename
\* removed.
ErrorShapes(m) ==
    IF m.content # None /\ The(m.content).error # None
    THEN {WithContent(m, "error", Some([ename |-> Absent]))}
    ELSE {}

\* Arguments of validate.
ValidateInputs ==
    WellFormed
    \cup UNION {ErrorShapes(m) : m \in WellFormed}
    \cup {EmptyMsg}
    \cup UNION {Removals(m) : m \in WellFormed}
    \cup UNION {Foreign(m) : m \in WellFormed}
    \cup {[m EXCEPT !.content = None] : m \in WellFormed}

Payloads ==
    {Bytes("not json"),
     Dumps(get_execute_request("p1", "p2", "ping", "s1"))}

Addresses == {Bytes(p) : p \in Plugins}

\* Frame lists of lengths 0, 3, 4, 5 and 6; those of length 5 are
\* [sender, target, delimiter, correlation id, payload].
Envelopes ==
    {<<a, b, Bytes(""), Bytes("c1"), Dumps(get_execute_request("p1", "p2", "ping", "s1"))>> :
        a \in Addresses, b \in Addresses}
    \cup {<<Bytes("p2"), Bytes("p1"), Bytes("d"), Bytes("c2"), Bytes("not json")>>}
    \cup {<<>>}
    \cup {<<Bytes("p1"), Bytes(""), pl>> : pl \in Payloads}
    \cup {<<Bytes("p1"), Bytes("p2"), Bytes(""), Bytes("not json")>>,
          <<Bytes("p1"), Bytes("p2"), Bytes(""), Bytes("c1"),
            Bytes("not json"), Bytes("x")>>}

\* The execute_reply a target returns for the request of the given session.
ReplyTo(session) ==
    get_execute_reply(get_execute_request("p1", "p2", "ping", session),
                      1, None, None)

\* Envelopes a peer with identity Env sends through the hub to a connected
\* plugin: requests for each command, replies for the first session with the
\* schema's header and with an extra session_id key, and an undecodable
\* payload.
NetPayloads(p) ==
    {Dumps(get_execute_request(Env, p, "ping", "s1"))}
    \cup (IF p = "p1"
          THEN {Dumps(get_execute_request(Env, p, "boom", "s1")),
                Dumps(get_execute_request(Env, p, "nope", "s1")),
                Dumps(ReplyTo(SessionName(1))),
                Dumps(WithHeader(ReplyTo(SessionName(1)), "session_id",
                                 SessionName(1))),
                Bytes("not json")}
          ELSE {})

NetEnvelopes ==
    UNION {{<<Bytes(Env), Bytes(p), Bytes(""), Bytes("c1"), pl>> :
                pl \in NetPayloads(p)} : p \in Plugins}

(***************************************************************************)
(* Initial state: Hub.__init__ (hub.py 37-55), Plugin.__init__             *)
(* (plugin.py 41-58).                                                      *)
(***************************************************************************)
\* A call of a receive entry point: op names the method, who the instance,
\* input the frames it was given, sent the frame lists it wrote to its
\* endpoint, invoked the sessions whose callback it ran, trace its events in
\* order, escaped whether an exception left it.
Call(op, who, input, sent, invoked, trace, escaped) ==
    [op |-> op, who |-> who, input |-> input, sent |-> sent,
     invoked |-> invoked, trace |-> trace, escaped |-> escaped]

NoCall == Call("none", "none", <<>>, <<>>, <<>>, <<>>, FALSE)

\* A call of validate: its argument and what it did.
Validated(called, data) ==
    [called |-> called, data |-> data, result |-> validate(data)]

NoValidate == Validated(FALSE, EmptyMsg)

HubInit ==
    /\ hub_state = "Unbound"
    /\ registry = <<>>
    /\ hub_execute_reply_id = 0
    /\ query_socket = "None"
    /\ command_port = 0
    /\ publish_port = 0
    /\ hub_sockets = [e \in Endpoints |-> [live |-> 0, peak |-> 0]]

PluginInit ==
    /\ plugin_state = [p \in Plugins |-> "Unbound"]
    /\ plugin_pc = [p \in Plugins |-> "idle"]
    /\ plugin_execute_reply_id = [p \in Plugins |-> 1]
    /\ callbacks = [p \in Plugins |-> {}]
    /\ plugin_registry = [p \in Plugins |-> None]
    /\ hub_socket_info = [p \in Plugins |-> None]
    /\ plugin_command_socket = [p \in Plugins |-> 0]
    /\ next_session = 1
    /\ cb_requested = [p \in Plugins |-> {}]
    /\ plugin_query_socket = [p \in Plugins |-> [state |-> "None", gen |-> 0]]
    /\ plugin_subscribe_socket = [p \in Plugins |-> 0]
    /\ plugin_trace = [p \in Plugins |-> <<>>]
    /\ plugin_result = [p \in Plugins |-> "none"]
    /\ cb_ran = [p \in Plugins |-> {}]

NetInit ==
    /\ query_req = [p \in Plugins |-> None]
    /\ query_rep = [p \in Plugins |-> None]
    /\ hub_cmd_in = <<>>
    /\ plugin_cmd_in = [p \in Plugins |-> <<>>]

Init ==
    /\ HubInit
    /\ PluginInit
    /\ NetInit
    /\ validated = NoValidate
    /\ last = NoCall
    /\ tick = 0
    /\ command_in = <<>>
    /\ command_out = <<>>

(***************************************************************************)
(* Transport between the ROUTER sockets.                                   *)
(***************************************************************************)
\* Every plugin's reset() has returned.
AllBound == \A p \in Plugins : plugin_state[p] = "Bound"

\* The plugins a frame list written by the hub reaches: the one whose
\* identity is the first frame, if its Command socket is connected to the
\* hub's current Command port.
Reaches(frames, p) ==
    /\ Len(frames) >= 1
    /\ frames[1] = Bytes(p)
    /\ plugin_command_socket[p] # 0
    /\ plugin_command_socket[p] = command_port

\* What the receiving ROUTER hands to its owner: the sender's identity in
\* place of the first frame.
Received(frames, sender) == <<Bytes(sender)>> \o Tail(frames)

\* plugin_cmd_in after the hub wrote the frame lists of sent.
DeliverToPlugins(sent) ==
    [p \in Plugins |->
        IF Len(sent) = 1 /\ Reaches(sent[1], p)
        THEN Append(plugin_cmd_in[p], Received(sent[1], HubName))
        ELSE plugin_cmd_in[p]]

\* A frame list written by plugin p reaches the hub when it is addressed to
\* the hub's identity over a socket connected to its current Command port.
ReachesHub(frames, p) ==
    /\ Len(frames) >= 1
    /\ frames[1] = Bytes(HubName)
    /\ hub_state = "Bound"
    /\ plugin_command_socket[p] = command_port

DeliverToHub(sent, p) ==
    IF Len(sent) = 1 /\ ReachesHub(sent[1], p)
    THEN Append(hub_cmd_in, Received(sent[1], p))
    ELSE hub_cmd_in

\* The frame lists in flight on the Command sockets number at most MaxQueue.
QueuesFit(hubq, pluginq) ==
    Len(hubq) + Len(pluginq["p1"]) + Len(pluginq["p2"]) <= MaxQueue

(***************************************************************************)
(* Hub actions.                                                            *)
(***************************************************************************)
\* Variant of ResetSocket that creates the new socket before closing the old
\* one.
ResetSocketCreatesFirst(h) ==
    [live |-> IF h.live > 0 THEN h.live ELSE 1,
     peak |-> IF h.live + 1 > h.peak THEN h.live + 1 ELSE h.peak]

\* reset_<endpoint>_socket (hub.py 78-83, 93-98, 111-116): an existing socket
\* is closed, then a new one is created.
ResetSocket(h) ==
    LET closed == IF h.live > 0 THEN h.live - 1 ELSE h.live
        created == closed + 1
    IN  [live |-> created,
         peak |-> IF created > h.peak THEN created ELSE h.peak]

\* Hub.reset (hub.py 66-69): counter, then publish, query and command sockets.
HubReset ==
    /\ hub_state' = "Bound"
    /\ hub_execute_reply_id' = 1
    /\ publish_port' \in PublishPorts
    /\ query_socket' = "idle"
    /\ command_port' \in CommandPorts
    /\ hub_sockets' = [e \in Endpoints |-> ResetSocket(hub_sockets[e])]
    /\ UNCHANGED <<registry, pluginVars, netVars, validated, last, tick,
                   relayVars>>

\* Hub.reset_query_socket (hub.py 76-84).
HubResetQuerySocket ==
    /\ hub_state = "Bound"
    /\ query_socket' = "idle"
    /\ hub_sockets' = [hub_sockets EXCEPT !.query = ResetSocket(@)]
    /\ UNCHANGED <<hub_state, registry, hub_execute_reply_id, command_port,
                   publish_port, pluginVars, netVars, validated, last, tick,
                   relayVars>>

\* Hub.reset_command_socket (hub.py 91-102).
HubResetCommandSocket ==
    /\ hub_state = "Bound"
    /\ command_port' \in CommandPorts
    /\ hub_sockets' = [hub_sockets EXCEPT !.command = ResetSocket(@)]
    /\ UNCHANGED <<hub_state, registry, hub_execute_reply_id, query_socket,
                   publish_port, pluginVars, netVars, validated, last, tick,
                   relayVars>>

\* Hub.reset_publish_socket (hub.py 109-119).
HubResetPublishSocket ==
    /\ hub_state = "Bound"
    /\ publish_port' \in PublishPorts
    /\ hub_sockets' = [hub_sockets EXCEPT !.publish = ResetSocket(@)]
    /\ UNCHANGED <<hub_state, registry, hub_execute_reply_id, query_socket,
                   command_port, pluginVars, netVars, validated, last, tick,
                   relayVars>>

\* The calls of reset_query_socket that on_query_recv made (hub.py 306, 331).
QueryResets(trace) ==
    Cardinality({i \in DOMAIN trace : trace[i] = "reset_query_socket"})

RECURSIVE ResetTimes(_, _)
ResetTimes(h, n) == IF n = 0 THEN h ELSE ResetTimes(ResetSocket(h), n - 1)

\* The frame lists a sent reply makes on the wire (json.dumps, hub.py 328).
Wire(sent) == IF sent = None THEN <<>> ELSE << <<Dumps(The(sent))>> >>

\* The REP socket receives frame and the receive loop calls on_query_recv.
HubQueryStep(frame, limit) ==
    LET r == HubOnQueryRecv(frame, registry, hub_execute_reply_id,
                            command_port, publish_port)
    IN  /\ hub_state = "Bound"
        /\ query_socket = "idle"
        /\ r.count <= limit
        /\ registry' = r.registry
        /\ hub_execute_reply_id' = r.count
        /\ query_socket' = r.socket
        /\ last' = Call("on_query_recv", HubName, <<frame>>, Wire(r.sent),
                        <<>>, r.trace, r.escaped)
        /\ tick' = 1 - tick
        /\ hub_sockets' = [hub_sockets EXCEPT !.query =
                                ResetTimes(@, QueryResets(r.trace))]
        /\ UNCHANGED <<hub_state, command_port, publish_port, validated,
                       relayVars>>

\* Variant of HubCommandStep that draws a value of the reply counter for
\* every frame list.
HubCommandStepDraws(frames) ==
    LET r == HubOnCommandRecv(frames)
    IN  /\ hub_state = "Bound"
        /\ plugin_cmd_in' = DeliverToPlugins(r.sent)
        /\ QueuesFit(hub_cmd_in', plugin_cmd_in')
        /\ last' = Call("on_command_recv", HubName, frames, r.sent, <<>>,
                        r.trace, FALSE)
        /\ tick' = 1 - tick
        /\ hub_execute_reply_id' = hub_execute_reply_id + 1
        /\ UNCHANGED <<hub_state, registry, query_socket, command_port,
                       publish_port, hub_sockets, pluginVars, query_req,
                       query_rep, validated>>

\* The ROUTER socket receives frames and the receive loop calls
\* on_command_recv.
HubCommandStep(frames) ==
    LET r == HubOnCommandRecv(frames)
    IN  /\ hub_state = "Bound"
        /\ plugin_cmd_in' = DeliverToPlugins(r.sent)
        /\ QueuesFit(hub_cmd_in', plugin_cmd_in')
        /\ last' = Call("on_command_recv", HubName, frames, r.sent, <<>>,
                        r.trace, FALSE)
        /\ tick' = 1 - tick
        /\ UNCHANGED <<hubVars, pluginVars, query_req, query_rep, validated>>

\* A peer that is no Plugin instance sends frame to the Query endpoint.
EnvQuery ==
    \E frame \in QueryFrames :
        /\ HubQueryStep(frame, MaxCount + 1)
        /\ UNCHANGED <<pluginVars, netVars>>

\* A peer that is no Plugin instance sends frames to the Command endpoint.
EnvCommand ==
    \E frames \in Envelopes :
        /\ UNCHANGED <<hub_cmd_in, relayVars>>
        /\ HubCommandStep(frames)

\* Variant of CommandSocketSend that puts a frame list ahead of those
\* written before it.
CommandSocketSendFirst(out, sent) == sent \o out

\* self.command_socket.send(message) (hub.py 130): the socket carries what
\* is written to it in the order of the writes.
CommandSocketSend(out, sent) == out \o sent

\* The hub's receive loop hands on_command_recv one frame list after
\* another, up to MaxRelay of them; what goes in and what comes out of the
\* Command socket is kept in order.
RelayCommand ==
    \E frames \in Envelopes :
        /\ Len(command_in) < MaxRelay
        /\ UNCHANGED hub_cmd_in
        /\ HubCommandStep(frames)
        /\ command_in' = Append(command_in, frames)
        /\ command_out' = CommandSocketSend(command_out,
                                          HubOnCommandRecv(frames).sent)

\* A peer that is no Plugin instance sends frames through the hub to a plugin
\* whose Command socket is connected.
EnvRelay ==
    \E frames \in NetEnvelopes :
        /\ AllBound
        /\ Reaches(Swap(frames), The({p \in Plugins : frames[2] = Bytes(p)}))
        /\ UNCHANGED <<hub_cmd_in, relayVars>>
        /\ HubCommandStep(frames)

\* The hub serves the request plugin p sent with query().
NetQuery ==
    \E p \in Plugins :
        /\ query_req[p] # None
        /\ HubQueryStep(The(query_req[p]), MaxNetCount + 1)
        /\ query_req' = [query_req EXCEPT ![p] = None]
        /\ query_rep' = [query_rep EXCEPT ![p] =
                            IF last'.sent = <<>> THEN None
                            ELSE Some(last'.sent[1][1])]
        /\ UNCHANGED <<pluginVars, hub_cmd_in, plugin_cmd_in>>

\* The hub serves the oldest frame list its ROUTER socket received.
NetCommand ==
    /\ hub_cmd_in # <<>>
    /\ hub_cmd_in' = Tail(hub_cmd_in)
    /\ UNCHANGED relayVars
    /\ HubCommandStep(Head(hub_cmd_in))

(***************************************************************************)
(* Plugin actions.                                                         *)
(***************************************************************************)
\* Plugin.reset_query_socket (plugin.py 112-118): the old socket is dropped
\* and a new REQ socket is connected.
NewQuerySocket(q) == [state |-> "ready", gen |-> 1 - q.gen]

\* Variant of QueryEnd that leaves the socket as it is when the query fails.
QueryEndKeepsSocket(q, reply) ==
    [socket |-> [q EXCEPT !.state = IF reply = None THEN "awaiting" ELSE "ready"],
     raised |-> reply = None \/ ~QueryReplyOk(The(reply))]

\* Plugin.query from its receive on (plugin.py 172-178): reply is the frame
\* received, None when the receive raised.  The socket afterwards, and
\* whether query() raised.
QueryEnd(q, reply) ==
    IF reply # None /\ QueryReplyOk(The(reply))
    THEN [socket |-> [q EXCEPT !.state = "ready"], raised |-> FALSE]
    ELSE [socket |-> NewQuerySocket(q), raised |-> TRUE]

\* Plugin.reset up to the blocking receive of query(connect_request)
\* (plugin.py 81-85, 171-172).
PluginResetStart(p) ==
    /\ plugin_pc[p] = "idle"
    /\ plugin_state[p] = "Unbound"
    /\ query_req[p] = None
    /\ plugin_execute_reply_id' = [plugin_execute_reply_id EXCEPT ![p] = 1]
    /\ plugin_query_socket' = [plugin_query_socket EXCEPT ![p] =
                                [NewQuerySocket(@) EXCEPT !.state = "awaiting"]]
    /\ query_req' = [query_req EXCEPT ![p] =
                        Some(Dumps(get_connect_request(p, HubName, QuerySession)))]
    /\ plugin_pc' = [plugin_pc EXCEPT ![p] = "connect"]
    /\ plugin_trace' = [plugin_trace EXCEPT ![p] =
                            <<"counter", "query_socket", "connect_request">>]
    /\ plugin_result' = [plugin_result EXCEPT ![p] = "none"]
    /\ UNCHANGED <<hubVars, plugin_state, callbacks, plugin_registry,
                   hub_socket_info, plugin_command_socket, next_session,
                   cb_requested, plugin_subscribe_socket, cb_ran, query_rep,
                   hub_cmd_in, plugin_cmd_in, validated, last, tick,
                   relayVars>>

\* What reset() does with the outcome of query(connect_request): the steps
\* taken in order, whether the content was stored, the ports the Subscribe
\* and Command sockets were connected to (0: not opened), whether register
\* was sent and whether reset() raised.
Connected(stored, subscribe, command, register, steps) ==
    [stored |-> stored, subscribe |-> subscribe, command |-> command,
     register |-> register, steps |-> steps, raised |-> ~register]

\* Variant of AfterConnect that opens both sockets on the first ports and
\* registers whatever the connect query returned.
AfterConnectOpensAnyway(reply) ==
    Connected(FALSE, 6001, 5001, TRUE,
              <<"subscribe_socket", "command_socket", "register">>)

\* Plugin.reset after query(connect_request) (plugin.py 85-89, 102-103,
\* 133-135, 151-154).
AfterConnect(reply) ==
    IF reply = None \/ ~QueryReplyOk(The(reply))
    THEN Connected(FALSE, 0, 0, FALSE, <<"query_failed">>)
    ELSE LET content == Loads(The(reply)).content
         IN  IF content = None
             THEN Connected(FALSE, 0, 0, FALSE, <<"connect_reply">>)
             ELSE IF The(content).publish = None
             THEN Connected(TRUE, 0, 0, FALSE,
                            <<"connect_reply", "hub_socket_info">>)
             ELSE IF The(content).command_info = None
             THEN Connected(TRUE, The(The(content).publish).port, 0, FALSE,
                            <<"connect_reply", "hub_socket_info",
                              "subscribe_socket">>)
             ELSE Connected(TRUE, The(The(content).publish).port,
                            The(The(content).command_info).port, TRUE,
                            <<"connect_reply", "hub_socket_info",
                              "subscribe_socket", "command_socket", "register">>)

\* The rest of reset() once query(connect_request) has ended with reply
\* (None: its receive raised).
PluginAfterConnect(p, reply) ==
    LET q == QueryEnd(plugin_query_socket[p], reply)
        a == AfterConnect(reply)
    IN  /\ hub_socket_info' = [hub_socket_info EXCEPT ![p] =
                IF a.stored THEN Loads(The(reply)).content ELSE @]
        /\ plugin_subscribe_socket' = [plugin_subscribe_socket EXCEPT ![p] =
                IF a.subscribe # 0 THEN a.subscribe ELSE @]
        /\ plugin_command_socket' = [plugin_command_socket EXCEPT ![p] =
                IF a.command # 0 THEN a.command ELSE @]
        /\ plugin_trace' = [plugin_trace EXCEPT ![p] = @ \o a.steps]
        /\ query_req' = [query_req EXCEPT ![p] =
                IF a.register
                THEN Some(Dumps(get_execute_request(p, HubName, "register",
                                                    QuerySession)))
                ELSE None]
        /\ plugin_query_socket' = [plugin_query_socket EXCEPT ![p] =
                IF a.register THEN [q.socket EXCEPT !.state = "awaiting"]
                ELSE q.socket]
        /\ plugin_pc' = [plugin_pc EXCEPT ![p] =
                IF a.register THEN "register" ELSE "idle"]
        /\ plugin_result' = [plugin_result EXCEPT ![p] =
                IF a.raised THEN "raised" ELSE "none"]
        /\ query_rep' = [query_rep EXCEPT ![p] = None]
        /\ UNCHANGED <<hubVars, plugin_state, plugin_execute_reply_id, callbacks,
                       plugin_registry, next_session, cb_requested, cb_ran,
                       hub_cmd_in, plugin_cmd_in, validated, last, tick,
                   relayVars>>

\* The connect_reply arrives: query() returns it, reset() stores its content,
\* opens the Subscribe and Command sockets and sends the register request.
PluginConnected(p) ==
    /\ plugin_pc[p] = "connect"
    /\ query_rep[p] # None
    /\ PluginAfterConnect(p, query_rep[p])

\* The rest of register() and reset() once query(register) has ended with
\* reply (plugin.py 103-105).
PluginAfterRegister(p, reply) ==
    LET q == QueryEnd(plugin_query_socket[p], reply)
    IN  /\ query_rep' = [query_rep EXCEPT ![p] = None]
        /\ query_req' = [query_req EXCEPT ![p] = None]
        /\ plugin_pc' = [plugin_pc EXCEPT ![p] = "idle"]
        /\ plugin_query_socket' = [plugin_query_socket EXCEPT ![p] = q.socket]
        /\ plugin_result' = [plugin_result EXCEPT ![p] =
                IF q.raised THEN "raised" ELSE "returned"]
        /\ plugin_trace' = [plugin_trace EXCEPT ![p] =
                Append(@, IF q.raised THEN "query_failed" ELSE "register_reply")]
        /\ IF q.raised
           THEN UNCHANGED <<plugin_registry, plugin_state>>
           ELSE /\ plugin_registry' = [plugin_registry EXCEPT ![p] =
                                        decode_content_data(Loads(The(reply)))]
                /\ plugin_state' = [plugin_state EXCEPT ![p] = "Bound"]
        /\ UNCHANGED <<hubVars, plugin_execute_reply_id, callbacks,
                       hub_socket_info, plugin_command_socket, next_session,
                       cb_requested, plugin_subscribe_socket, cb_ran,
                       hub_cmd_in, plugin_cmd_in, validated, last, tick,
                   relayVars>>

\* The reply to register arrives: register() stores its data and reset()
\* returns.
PluginRegistered(p) ==
    /\ plugin_pc[p] = "register"
    /\ query_rep[p] # None
    /\ PluginAfterRegister(p, query_rep[p])

\* Requests a caller can hand to Plugin.query.
UserQueries(p) == {get_execute_request(p, HubName, "nope", QuerySession)}

\* Plugin.query(request) up to its blocking receive (plugin.py 171-172).
PluginQuery(p) ==
    \E request \in UserQueries(p) :
        /\ plugin_state[p] = "Bound"
        /\ plugin_pc[p] = "idle"
        /\ plugin_query_socket[p].state = "ready"
        /\ query_req[p] = None
        /\ query_req' = [query_req EXCEPT ![p] = Some(Dumps(request))]
        /\ plugin_pc' = [plugin_pc EXCEPT ![p] = "query"]
        /\ plugin_query_socket' = [plugin_query_socket EXCEPT ![p].state = "awaiting"]
        /\ plugin_result' = [plugin_result EXCEPT ![p] = "none"]
        /\ UNCHANGED <<hubVars, plugin_state, plugin_execute_reply_id, callbacks,
                       plugin_registry, hub_socket_info, plugin_command_socket,
                       next_session, cb_requested, plugin_subscribe_socket,
                       plugin_trace, cb_ran, query_rep, hub_cmd_in,
                       plugin_cmd_in, validated, last, tick,
                   relayVars>>

\* The rest of query() once its receive has ended with reply.
PluginAfterQuery(p, reply) ==
    LET q == QueryEnd(plugin_query_socket[p], reply)
    IN  /\ query_rep' = [query_rep EXCEPT ![p] = None]
        /\ query_req' = [query_req EXCEPT ![p] = None]
        /\ plugin_pc' = [plugin_pc EXCEPT ![p] = "idle"]
        /\ plugin_query_socket' = [plugin_query_socket EXCEPT ![p] = q.socket]
        /\ plugin_result' = [plugin_result EXCEPT ![p] =
                IF q.raised THEN "raised" ELSE "returned"]
        /\ UNCHANGED <<hubVars, plugin_state, plugin_execute_reply_id, callbacks,
                       plugin_registry, hub_socket_info, plugin_command_socket,
                       next_session, cb_requested, plugin_subscribe_socket,
                       plugin_trace, cb_ran, hub_cmd_in, plugin_cmd_in,
                       validated, last, tick,
                   relayVars>>

\* The reply arrives and query() returns or raises (plugin.py 172-178).
PluginQueryReturns(p) ==
    /\ plugin_pc[p] = "query"
    /\ query_rep[p] # None
    /\ PluginAfterQuery(p, query_rep[p])

\* The receive of query() raises (zmq.Again with flags=NOBLOCK, a transport
\* error) while no reply has arrived; the request is lost with the socket.
PluginQueryTimeout(p) ==
    /\ plugin_pc[p] # "idle"
    /\ query_rep[p] = None
    /\ CASE plugin_pc[p] = "connect" -> PluginAfterConnect(p, None)
         [] plugin_pc[p] = "register" -> PluginAfterRegister(p, None)
         [] OTHER -> PluginAfterQuery(p, None)

\* Frames a peer bound to the Query address can answer a plugin's request
\* with.
EnvReplies(p) ==
    LET connect == get_connect_request(p, HubName, QuerySession)
        register == get_execute_request(p, HubName, "register", QuerySession)
        good == get_connect_reply(connect, SocketInfo(5001, 6001))
    IN  {Bytes("not json"),
         Dumps(good),
         Dumps([good EXCEPT !.content = None]),
         Dumps(connect),
         Dumps(get_execute_reply(register, 1, None, Some([result |-> <<p>>]))),
         Dumps(WithHeader(get_execute_reply(register, 1, None, None),
                          "version", "0.1"))}

\* A peer bound to the Query address answers the plugin's request.
EnvQueryReply(p) ==
    \E frame \in EnvReplies(p) :
        /\ query_req[p] # None
        /\ query_rep[p] = None
        /\ query_req' = [query_req EXCEPT ![p] = None]
        /\ query_rep' = [query_rep EXCEPT ![p] = Some(frame)]
        /\ UNCHANGED <<hubVars, pluginVars, hub_cmd_in, plugin_cmd_in,
                       validated, last, tick,
                   relayVars>>

\* Code of a Plugin subclass stores a callback in self.callbacks under the
\* first session id (plugin.py 55-58).
PluginStoreCallback(p) ==
    /\ SessionName(1) \notin callbacks[p]
    /\ callbacks' = [callbacks EXCEPT ![p] = @ \cup {SessionName(1)}]
    /\ UNCHANGED <<hubVars, plugin_state, plugin_pc, plugin_execute_reply_id,
                   plugin_registry, hub_socket_info, plugin_command_socket,
                   next_session, cb_requested, pluginIO, netVars, validated,
                   last, tick,
                   relayVars>>

PluginCommands == {"ping"}

\* Plugin.execute(target_name, command, callback) (plugin.py 197-199): the
\* request gets a fresh session; the callback is not stored.
PluginExecute(p) ==
    \E target \in Plugins \ {p}, command \in PluginCommands, withCallback \in BOOLEAN :
        LET session == SessionName(next_session)
            request == get_execute_request(p, target, command, session)
            sent == << <<Bytes(HubName), Bytes(""), Dumps(request)>> >>
        IN  /\ plugin_pc[p] = "idle"
            /\ plugin_command_socket[p] # 0
            /\ next_session <= MaxSessions
            /\ next_session' = next_session + 1
            /\ cb_requested' = [cb_requested EXCEPT ![p] =
                                    IF withCallback THEN @ \cup {session} ELSE @]
            /\ hub_cmd_in' = DeliverToHub(sent, p)
            /\ QueuesFit(hub_cmd_in', plugin_cmd_in)
            /\ UNCHANGED <<hubVars, plugin_state, plugin_pc,
                           plugin_execute_reply_id, callbacks, plugin_registry,
                           hub_socket_info, plugin_command_socket, pluginIO,
                           query_req, query_rep, plugin_cmd_in, validated,
                           last, tick,
                   relayVars>>

\* The plugin's ROUTER socket receives frames and its receive loop calls
\* on_command_recv.
PluginCommandStep(p, frames) ==
    LET r == PluginOnCommandRecv(frames, plugin_execute_reply_id[p], callbacks[p])
    IN  /\ plugin_command_socket[p] # 0
        /\ plugin_pc[p] = "idle"
        /\ r.count <= MaxPluginCount + 1
        /\ plugin_execute_reply_id' =
                [plugin_execute_reply_id EXCEPT ![p] = r.count]
        /\ cb_ran' = [cb_ran EXCEPT ![p] = @ \cup Range(r.invoked)]
        /\ hub_cmd_in' = DeliverToHub(r.sent, p)
        /\ QueuesFit(hub_cmd_in', plugin_cmd_in')
        /\ last' = Call("on_command_recv", p, frames, r.sent, r.invoked,
                        r.trace, r.escaped)
        /\ tick' = 1 - tick
        /\ UNCHANGED <<hubVars, plugin_state, plugin_pc, callbacks,
                       plugin_registry, hub_socket_info, plugin_command_socket,
                       next_session, cb_requested, plugin_query_socket,
                       plugin_subscribe_socket, plugin_trace, plugin_result,
                       query_req, query_rep, validated, relayVars>>

\* Frame lists a peer can put on a plugin's Command socket.
PluginEnvelopes ==
    LET ping == get_execute_request(Env, "p1", "ping", "s1")
        reply == ReplyTo(SessionName(1))
    IN  {<<>>}
        \cup {<<Bytes(HubName), Bytes(Env), Bytes(""), Bytes("c1"), pl>> :
                pl \in {Bytes("not json"),
                        Dumps(ping),
                        Dumps(get_execute_request(Env, "p1", "boom", "s1")),
                        Dumps(get_execute_request(Env, "p1", "nope", "s1")),
                        Dumps([ping EXCEPT !.content = None]),
                        Dumps(WithHeader(ping, "version", "0.1")),
                        Dumps(reply),
                        Dumps(WithHeader(reply, "session_id", SessionName(1))),
                        Dumps([WithHeader(reply, "session_id", SessionName(1))
                                    EXCEPT !.content = None])}}

\* A peer sends frames to the plugin's Command socket.
EnvPluginCommand(p) ==
    \E frames \in PluginEnvelopes :
        /\ UNCHANGED plugin_cmd_in
        /\ PluginCommandStep(p, frames)

\* The plugin serves the oldest frame list its ROUTER socket received.
NetPluginCommand(p) ==
    /\ plugin_cmd_in[p] # <<>>
    /\ plugin_cmd_in' = [plugin_cmd_in EXCEPT ![p] = Tail(@)]
    /\ PluginCommandStep(p, Head(plugin_cmd_in[p]))

(***************************************************************************)
(* Specifications.                                                         *)
(***************************************************************************)
\* The hub alone, its two receive entry points fed every input of
\* QueryFrames and Envelopes.
Next ==
    \/ HubReset
    \/ HubResetQuerySocket
    \/ HubResetCommandSocket
    \/ HubResetPublishSocket
    \/ EnvQuery
    \/ EnvCommand

Spec == Init /\ [][Next]_vars

\* Hub.reset() called once, on the unbound hub.
HubStart ==
    /\ hub_state = "Unbound"
    /\ HubReset
    /\ command_port' = 5001
    /\ publish_port' = 6001

\* validate is called with an argument.
ValidateStep ==
    \E data \in ValidateInputs :
        /\ validated' = Validated(TRUE, data)
        /\ UNCHANGED <<hubVars, pluginVars, netVars, last, tick,
                   relayVars>>

\* validate alone, on every argument of ValidateInputs.
ValidateNext == ValidateStep

ValidateSpec == Init /\ [][ValidateNext]_vars

\* The plugin that runs alone against peers that are no Hub instance.
Solo == "p1"

PluginNext ==
    \/ PluginResetStart(Solo)
    \/ EnvQueryReply(Solo)
    \/ PluginQueryTimeout(Solo)
    \/ PluginConnected(Solo)
    \/ PluginRegistered(Solo)
    \/ PluginQuery(Solo)
    \/ PluginQueryReturns(Solo)
    \/ PluginExecute(Solo)
    \/ PluginStoreCallback(Solo)
    \/ EnvPluginCommand(Solo)

PluginSpec == Init /\ [][PluginNext]_vars

\* The hub alone, relaying what its Command socket receives.
RelayNext ==
    \/ HubStart
    \/ RelayCommand

RelaySpec == Init /\ [][RelayNext]_vars

\* query() and execute() are called once every plugin's reset() has returned.
NetPluginQuery(p) == AllBound /\ PluginQuery(p)
NetPluginExecute(p) == AllBound /\ PluginExecute(p)

\* The hub and the plugins connected through their sockets.
NetNext ==
    \/ HubStart
    \/ NetQuery
    \/ NetCommand
    \/ \E p \in Plugins : PluginResetStart(p)
    \/ \E p \in Plugins : PluginConnected(p)
    \/ \E p \in Plugins : PluginRegistered(p)
    \/ \E p \in Plugins : NetPluginQuery(p)
    \/ \E p \in Plugins : PluginQueryReturns(p)
    \/ \E p \in Plugins : NetPluginExecute(p)
    \/ EnvRelay
    \/ \E p \in Plugins : NetPluginCommand(p)

NetSpec == Init /\ [][NetNext]_vars

(***************************************************************************)
(* Properties.                                                             *)
(***************************************************************************)
IsHubQuery(c) == c.op = "on_query_recv" /\ c.who = HubName
IsHubCommand(c) == c.op = "on_command_recv" /\ c.who = HubName
QueryFrame(c) == c.input[1]

\* The call was given a frame that decodes to a valid message.
ValidQuery(c) ==
    /\ IsHubQuery(c)
    /\ Decodable(QueryFrame(c))
    /\ Validates(Loads(QueryFrame(c)))

\* The call was given a frame that does not decode, or decodes to a message
\* that fails validation.
BadQuery(c) == IsHubQuery(c) /\ ~ValidQuery(c)

RequestHeader(c) == The(Loads(QueryFrame(c)).header)
RequestContent(c) == Loads(QueryFrame(c)).content

ValidConnect(c) ==
    ValidQuery(c) /\ RequestHeader(c).msg_type = "connect_request"

ValidExecute(c) ==
    ValidQuery(c) /\ RequestHeader(c).msg_type = "execute_request"

ValidRegister(c) ==
    /\ ValidExecute(c)
    /\ RequestContent(c) # None
    /\ The(RequestContent(c)).command = "register"

\* The call sent exactly one frame list of one decodable frame.
SentOneMessage(c) ==
    /\ Len(c.sent) = 1
    /\ Len(c.sent[1]) = 1
    /\ Decodable(c.sent[1][1])

SentMessage(c) == Loads(c.sent[1][1])

SentExecuteReply(c) ==
    /\ SentOneMessage(c)
    /\ The(SentMessage(c).header).msg_type = "execute_reply"

SentCount(c) == The(The(SentMessage(c).content).execution_count)

CallStep == tick' # tick

IsPluginCommand(c) == c.op = "on_command_recv" /\ c.who \in Plugins
CommandPayload(c) == c.input[Len(c.input)]

\* The plugin's call was given frames whose last decodes to a valid message.
ValidCommand(c) ==
    /\ IsPluginCommand(c)
    /\ Len(c.input) > 0
    /\ Decodable(CommandPayload(c))
    /\ Validates(Loads(CommandPayload(c)))

CommandHeader(c) == The(Loads(CommandPayload(c)).header)
CommandContent(c) == Loads(CommandPayload(c)).content

\* The hub's receive loop takes the oldest frame list a plugin sent it.
HubTakesPluginFrames ==
    /\ CallStep
    /\ IsHubCommand(last')
    /\ hub_cmd_in # <<>>
    /\ hub_cmd_in' = Tail(hub_cmd_in)
    /\ last'.input = Head(hub_cmd_in)

\* C2: what a registered plugin sends with execute(), or in reply to a
\* request, is relayed: when the hub's receive loop takes a frame list a
\* plugin sent, the hub puts its payload on the Command socket of the plugin
\* the payload's header names as target.
C2_ExecuteDelivery ==
    [][HubTakesPluginFrames =>
        LET frames == Head(hub_cmd_in)
            payload == frames[Len(frames)]
            target == The(Loads(payload).header).target
        IN  /\ target \in Plugins
            /\ Len(plugin_cmd_in'[target]) = Len(plugin_cmd_in[target]) + 1
            /\ LET got == plugin_cmd_in'[target][Len(plugin_cmd_in'[target])]
               IN  got[Len(got)] = payload]_vars

\* C3: a valid execute_reply given to Plugin.on_command_recv raises nothing;
\* it runs the callback once when execute() was called with a callback for
\* the reply's session, and runs no callback otherwise.
C3_CallbackCorrelation ==
    [][(CallStep /\ ValidCommand(last')
            /\ CommandHeader(last').msg_type = "execute_reply") =>
        LET s == CommandHeader(last').session
        IN  /\ ~last'.escaped
            /\ s \in cb_requested[last'.who] => last'.invoked = <<s>>
            /\ s \notin cb_requested[last'.who] => last'.invoked = <<>>]_vars

\* C4: the execution_count of the execute_replies a hub emits within one
\* reset() epoch are strictly increasing and start at 1: a reply lies between
\* the counter before and after its request, and a reply emitted while no
\* counter value has been used since reset() carries 1.
C4_CounterMonotonic ==
    [][(CallStep /\ IsHubQuery(last') /\ SentExecuteReply(last')) =>
        /\ hub_execute_reply_id <= SentCount(last')
        /\ SentCount(last') < hub_execute_reply_id'
        /\ (hub_execute_reply_id = 1 => SentCount(last') = 1)]_vars

\* C5: the registry holds each source once, in first-insertion order:
\* no step removes or moves an entry, a handled connect_request or register
\* leaves its source in the registry, and leaves the registry as it was
\* when the source was already there.
C5_RegistryIdempotent ==
    [][/\ Len(registry') >= Len(registry)
       /\ SubSeq(registry', 1, Len(registry)) = registry
       /\ Cardinality(Range(registry')) = Len(registry')
       /\ (CallStep /\ (ValidConnect(last') \/ ValidRegister(last'))) =>
            /\ RequestHeader(last').source \in Range(registry')
            /\ (RequestHeader(last').source \in Range(registry) =>
                    registry' = registry)]_vars

C5_Witness ==
    /\ ValidConnect(last) \/ ValidRegister(last)
    /\ Len(registry) = 2
    /\ RequestHeader(last).source = registry[1]

\* C6: a request that fails validation changes neither the registry nor the
\* reply counter.
C6_NoPartialProcessing ==
    [][(CallStep /\ IsHubQuery(last') /\ Decodable(QueryFrame(last'))
            /\ ~Validates(Loads(QueryFrame(last')))) =>
        /\ registry' = registry
        /\ hub_execute_reply_id' = hub_execute_reply_id]_vars

\* C7: for a Query frame that fails decoding or validation the hub sends no
\* reply and recreates the Query endpoint, which is never left with a
\* request pending.
C7_QueryRecovery ==
    /\ BadQuery(last) =>
        /\ last.sent = <<>>
        /\ "reset_query_socket" \in Range(last.trace)
        /\ ~last.escaped
    /\ query_socket # "pending"

\* The frame is a valid execute_reply to the request with status error and
\* an error that names the fault.
ErrorReplyTo(frame, request) ==
    /\ Decodable(frame)
    /\ Validates(Loads(frame))
    /\ The(Loads(frame).header).msg_type = "execute_reply"
    /\ The(Loads(frame).header).target = The(request.header).source
    /\ Loads(frame).parent_header = request.header
    /\ The(Loads(frame).content).status = "error"
    /\ The(Loads(frame).content).error # None
    /\ The(The(Loads(frame).content).error).ename \in {"NameError", "HandlerError"}

\* The hub was given a valid execute_request for a command it has no handler
\* for.
HubFault(c) ==
    /\ ValidExecute(c)
    /\ RequestContent(c) # None
    /\ The(RequestContent(c)).command \notin HubHandlers

\* A plugin was given a valid execute_request for a command it has no
\* handler for, or whose handler raises.
PluginFault(c) ==
    /\ ValidCommand(c)
    /\ CommandHeader(c).msg_type = "execute_request"
    /\ CommandContent(c) # None
    /\ \/ The(CommandContent(c)).command \notin PluginHandlers
       \/ PluginHandler(The(CommandContent(c)).command,
                        Loads(CommandPayload(c)), 1).raised

\* C8: a valid execute_request whose command has no handler, or whose
\* handler raises, makes the hub (Query path) and a plugin (Command path)
\* emit exactly one execute_reply with status error for the requester, and
\* no exception leaves the receive entry point.
C8_FaultsAnswered ==
    /\ HubFault(last) =>
        /\ ~last.escaped
        /\ Len(last.sent) = 1
        /\ Len(last.sent[1]) = 1
        /\ ErrorReplyTo(last.sent[1][1], Loads(QueryFrame(last)))
    /\ PluginFault(last) =>
        /\ ~last.escaped
        /\ Len(last.sent) = 1
        /\ Len(last.sent[1]) = 3
        /\ last.sent[1][1] = Bytes(HubName)
        /\ ErrorReplyTo(last.sent[1][3], Loads(CommandPayload(last)))

C8_Witness ==
    /\ PluginFault(last)
    /\ The(CommandContent(last)).command \in PluginHandlers
    /\ Len(last.sent) = 1
    /\ The(The(Loads(last.sent[1][3]).content).error).ename = "HandlerError"

\* C9: a valid connect_request from p leaves p in the registry and is
\* answered by one valid connect_reply that carries the ports of the
\* Command and Publish sockets bound at that time.
C9_Connect ==
    [][(CallStep /\ ValidConnect(last')) =>
        /\ RequestHeader(last').source \in Range(registry')
        /\ SentOneMessage(last')
        /\ Validates(SentMessage(last'))
        /\ The(SentMessage(last').header).msg_type = "connect_reply"
        /\ The(SentMessage(last').content).command_info
                = Some([port |-> command_port, name |-> HubName])
        /\ The(SentMessage(last').content).publish
                = Some([port |-> publish_port])]_vars

C9_Witness ==
    /\ ValidConnect(last)
    /\ SentOneMessage(last)
    /\ The(SentMessage(last).content).command_info
            = Some([port |-> 5002, name |-> HubName])
    /\ The(SentMessage(last).content).publish = Some([port |-> 6002])
    /\ RequestHeader(last).source \in Range(registry)

\* C10: the reply to a register request has status ok and carries the full
\* registry, the requester's name included.
C10_Register ==
    ValidRegister(last) =>
        /\ SentExecuteReply(last)
        /\ The(SentMessage(last).content).status = "ok"
        /\ The(SentMessage(last).content).data = Some([result |-> registry])
        /\ RequestHeader(last).source \in Range(registry)

\* The steps of a reset() that runs to its end, in order.
ResetOrder ==
    <<"counter", "query_socket", "connect_request", "connect_reply",
      "hub_socket_info", "subscribe_socket", "command_socket", "register",
      "register_reply">>

IsPrefix(a, b) == Len(a) <= Len(b) /\ SubSeq(b, 1, Len(a)) = a

\* The steps before the failure of a query, when the trace ends with one.
BeforeFailure(t) ==
    IF t # <<>> /\ t[Len(t)] = "query_failed" THEN SubSeq(t, 1, Len(t) - 1) ELSE t

QueryEnds(p) == plugin_pc[p] # "idle" /\ plugin_pc'[p] # plugin_pc[p]

\* The receive of the query raised, or its reply does not decode or
\* validate.
QueryFailed(p) == query_rep[p] = None \/ ~QueryReplyOk(The(query_rep[p]))

\* C12: a query() that fails leaves a new Query socket, ready to send, and
\* raises; a query() that succeeds keeps the socket it used and returns.
C12_QueryFailure ==
    [][\A p \in Plugins : QueryEnds(p) =>
        /\ QueryFailed(p) =>
            /\ plugin_query_socket'[p].gen # plugin_query_socket[p].gen
            /\ plugin_query_socket'[p].state = "ready"
            /\ plugin_result'[p] = "raised"
            /\ plugin_pc'[p] = "idle"
            /\ query_req'[p] = None
        /\ ~QueryFailed(p) =>
            /\ plugin_query_socket'[p].gen = plugin_query_socket[p].gen
            /\ plugin_pc[p] # "connect" => plugin_result'[p] = "returned"
            /\ plugin_pc'[p] = "idle" => plugin_query_socket'[p].state = "ready"]_vars

C12_Witness ==
    /\ plugin_state[Solo] = "Bound"
    /\ plugin_result[Solo] = "raised"
    /\ plugin_pc[Solo] = "idle"
    /\ plugin_query_socket[Solo].state = "ready"

Mirrored(trace, first, out) ==
    /\ trace # <<>>
    /\ trace[1] = first
    /\ \A i \in DOMAIN trace :
        trace[i] = out => (i < Len(trace) /\ trace[i + 1] = "send")

\* C14: the hub publishes query_in / command_in before it processes what it
\* received, and publishes query_out / command_out for the messages it
\* sends and only for them.
C14_ObservabilityMirror ==
    /\ IsHubQuery(last) =>
        /\ Mirrored(last.trace, "query_in", "query_out")
        /\ last.sent # <<>> => "query_out" \in Range(last.trace)
    /\ IsHubCommand(last) =>
        /\ Mirrored(last.trace, "command_in", "command_out")
        /\ last.sent # <<>> => "command_out" \in Range(last.trace)

\* C15: once reset() has run the hub holds one open socket per endpoint, no
\* endpoint ever had two open at once, and reset() leaves the counter at 1.
C15_ResetRepeatable ==
    [][/\ hub_state' = "Bound" =>
            \A e \in Endpoints : hub_sockets'[e] = [live |-> 1, peak |-> 1]
       /\ HubReset => hub_execute_reply_id' = 1]_vars

C15_Witness ==
    /\ ValidRegister(last)
    /\ Len(registry) = 2
    /\ hub_execute_reply_id = 1
    /\ \A e \in Endpoints : hub_sockets[e].live = 1

\* C16: validate fails at the base step on every message whose version is
\* not "0.2" or whose msg_type is not one of the four, and runs the
\* msg_type-specific step only after the base step has passed.
C16_ClosedSets ==
    validated.called =>
        /\ validated.result.ran[1] = "base_message"
        /\ Len(validated.result.ran) = 2 =>
                validated.result.failed # "base_message"
        /\ (/\ validated.data.header # None
            /\ \/ The(validated.data.header).version # "0.2"
               \/ The(validated.data.header).msg_type \notin
                    {"connect_request", "connect_reply",
                     "execute_request", "execute_reply"}) =>
                /\ validated.result.failed = "base_message"
                /\ validated.result.ran = <<"base_message">>
                /\ validated.result.value = None

C16_Witness ==
    /\ validated.called
    /\ validated.data.header # None
    /\ The(validated.data.header).version = "1.0"
    /\ The(validated.data.header).msg_type = "execute_reply"
    /\ validated.data.content # None
    /\ validated.result.failed = "base_message"

\* C17: validate returns a well-formed message as it was given, and fails on
\* it with any one required key removed.
C17_RoundTrip ==
    validated.called =>
        /\ validated.data \in WellFormed =>
            /\ validated.result.failed = "none"
            /\ validated.result.value = Some(validated.data)
        /\ (\E m \in WellFormed : validated.data \in Removals(m)) =>
            /\ validated.result.failed # "none"
            /\ validated.result.value = None

C17_Witness ==
    /\ validated.called
    /\ validated.data.header # None
    /\ The(validated.data.header).msg_type = "connect_reply"
    /\ validated.data.content # None
    /\ The(validated.data.content).publish = None
    /\ The(validated.data.content).command_info # None
    /\ validated.result.failed = "connect_reply"

C19_CommandGate ==
    [][(CallStep /\ IsPluginCommand(last') /\ Len(last'.input) > 0
            /\ ~ValidCommand(last')) =>
        /\ last'.sent = <<>>
        /\ last'.invoked = <<>>
        /\ "handler" \notin Range(last'.trace)
        /\ ~last'.escaped
        /\ plugin_execute_reply_id' = plugin_execute_reply_id]_vars

\* C20: on_query_recv sends one reply for each valid connect_request or
\* execute_request, never more than one, and never sends on a Query socket
\* that has no request pending.
C20_QueryLockstep ==
    IsHubQuery(last) =>
        /\ (ValidConnect(last) \/ ValidExecute(last)) => Len(last.sent) = 1
        /\ Len(last.sent) <= 1
        /\ Cardinality({i \in DOMAIN last.trace :
                            last.trace[i] \in {"send", "send_failed"}}) <= 1
        /\ "send_failed" \notin Range(last.trace)

\* A plugin was given a valid execute_request.
ValidPluginRequest(c) ==
    ValidCommand(c) /\ CommandHeader(c).msg_type = "execute_request"

\* The frame list is ['hub', '', payload] and the payload a valid
\* execute_reply to the request: source and target swapped, session echoed.
ReplyThroughHub(frames, request) ==
    /\ Len(frames) = 3
    /\ frames[1] = Bytes(HubName)
    /\ frames[2] = Bytes("")
    /\ Decodable(frames[3])
    /\ Validates(Loads(frames[3]))
    /\ LET h == The(Loads(frames[3]).header)
           r == The(request.header)
       IN  /\ h.msg_type = "execute_reply"
           /\ h.source = r.target
           /\ h.target = r.source
           /\ h.session = r.session

RECURSIVE SwappedInOrder(_)
SwappedInOrder(ins) ==
    IF ins = <<>> THEN <<>>
    ELSE LET e == Head(ins)
         IN  (IF Len(e) = 5 THEN << <<e[2], e[1], e[3], e[4], e[5]>> >>
              ELSE <<>>) \o SwappedInOrder(Tail(ins))

InQueryOrRegister(p) ==
    /\ plugin_pc'[p] # plugin_pc[p]
    /\ plugin_pc'[p] # "connect"

\* Plugin p calls execute(): it sends a request with a fresh session.
InExecute(p) ==
    /\ next_session' # next_session
    /\ hub_cmd_in' # hub_cmd_in
    /\ hub_cmd_in'[Len(hub_cmd_in')][1] = Bytes(p)

\* C23: Hub.on_command_recv leaves the hub's registry and reply counter as
\* they are for every input, and Plugin.query(), Plugin.register() and
\* Plugin.execute() leave the plugin's reply counter as it is.
C23_SingleWriter ==
    [][/\ (CallStep /\ IsHubCommand(last')) =>
            /\ registry' = registry
            /\ hub_execute_reply_id' = hub_execute_reply_id
       /\ \A p \in Plugins :
            (InQueryOrRegister(p) \/ InExecute(p)) =>
                plugin_execute_reply_id'[p] = plugin_execute_reply_id[p]]_vars

\* The hub relayed an envelope with two names registered and counter values
\* drawn, after a plugin that had served a request called execute().
C23_Witness ==
    /\ IsHubCommand(last)
    /\ Len(last.sent) = 1
    /\ Len(registry) = 2
    /\ hub_execute_reply_id > 1
    /\ next_session > 1
    /\ plugin_execute_reply_id["p1"] > 1

\* C24: within one reset() epoch, handling one valid execute_request (the
\* built-in register, an unknown command or a failing handler) consumes
\* exactly one value of the hub's reply counter, so the execution_count of
\* consecutive execute_replies differ by exactly 1.
C24_CounterStep ==
    [][(CallStep /\ ValidExecute(last') /\ RequestContent(last') # None
            /\ The(RequestContent(last')).command # Absent) =>
        /\ SentExecuteReply(last')
        /\ hub_execute_reply_id' = hub_execute_reply_id + 1
        /\ SentCount(last') = hub_execute_reply_id]_vars

\* The frame is the identity of a name in the registry.
Registered(frame, reg) == \E n \in Range(reg) : frame = Bytes(n)

\* The hub was given a 5-frame envelope whose payload is a valid
\* execute_request or execute_reply.
ExecuteEnvelope(c) ==
    /\ IsHubCommand(c)
    /\ Len(c.input) = 5
    /\ Decodable(c.input[5])
    /\ Validates(Loads(c.input[5]))
    /\ The(Loads(c.input[5]).header).msg_type
            \in {"execute_request", "execute_reply"}

UnexpectedQuery(c) ==
    /\ ValidQuery(c)
    /\ RequestHeader(c).msg_type \in {"connect_reply", "execute_reply"}

\* The number of times event occurs in trace.
Occurrences(trace, event) ==
    Cardinality({i \in DOMAIN trace : trace[i] = event})

\* C26: a schema-valid connect_reply or execute_reply given to
\* Hub.on_query_recv is not answered, changes neither the registry nor the
\* reply counter, makes the hub recreate the Query endpoint exactly once and
\* lets no exception escape.
C26_UnexpectedType ==
    [][(CallStep /\ UnexpectedQuery(last')) =>
        /\ last'.sent = <<>>
        /\ "send" \notin Range(last'.trace)
        /\ registry' = registry
        /\ hub_execute_reply_id' = hub_execute_reply_id
        /\ Occurrences(last'.trace, "reset_query_socket") = 1
        /\ hub_sockets'.query.live = 1
        /\ query_socket' = "idle"
        /\ ~last'.escaped]_vars

\* The hub was given an execute_reply on the Query endpoint with a name
\* registered and counter values drawn.
C26_Witness ==
    /\ UnexpectedQuery(last)
    /\ RequestHeader(last).msg_type = "execute_reply"
    /\ Len(registry) >= 1
    /\ hub_execute_reply_id > 1

\* C27: over the hub's whole lifetime the registry only grows: no call of
\* on_query_recv or on_command_recv and no reset removes a name or changes
\* the order of the names already there, and reset() and the per-endpoint
\* resets leave the registry as it is.
C27_RegistryGrows ==
    [][/\ IsPrefix(registry, registry')
       /\ (HubReset \/ ~CallStep) => registry' = registry]_vars

\* reset() ran while two names were registered: the counter is back at 1
\* after a register call had drawn from it.
C27_Witness ==
    /\ ValidRegister(last)
    /\ Len(registry) = 2
    /\ hub_execute_reply_id = 1

\* C28: once a plugin's reset() has returned, its register() having
\* succeeded, the plugin's local registry holds the plugin's own name and is
\* an order-preserving prefix of the hub's registry.
C28_RegistrySnapshot ==
    \A p \in Plugins :
        plugin_state[p] = "Bound" =>
            /\ plugin_registry[p] # None
            /\ p \in Range(The(plugin_registry[p]).result)
            /\ IsPrefix(The(plugin_registry[p]).result, registry)

\* validate was called on an execute_reply whose content carries an error
\* object.
ErrorReplyValidated ==
    /\ validated.called
    /\ validated.data.header # None
    /\ The(validated.data.header).msg_type = "execute_reply"
    /\ validated.data.content # None
    /\ The(validated.data.content).error # None

\* C29: validate rejects every execute_reply whose content carries an error
\* object without ename, and accepts one whose error object has ename, with
\* evalue and traceback left out.
C29_ErrorShape ==
    ErrorReplyValidated =>
        LET error == The(The(validated.data.content).error)
        IN  /\ error.ename = Absent => validated.result.failed # "none"
            /\ (error.ename # Absent /\ validated.data \in WellFormed) =>
                    validated.result.failed = "none"

====
